---- MODULE Spec2Model ----
(***************************************************************************)
(* OSMParcelMap: the viewport-driven parcel fetch / filter / draw cycle    *)
(* and the polygon drawing interaction of the map component.               *)
(*                                                                         *)
(* One action per event handler of the component.  The mapping library is  *)
(* taken to deliver events as it documents them: a zoom change fires       *)
(* zoomend and then moveend in the same task, a pan fires moveend alone,   *)
(* and a removed map delivers no further events.  React state setters are  *)
(* modelled as the assignments the source writes.                          *)
(*                                                                         *)
(* Four specifications share the actions: Spec, the fetch / draw cycle     *)
(* with the component's teardown; SpecDraw, the draw controller over the   *)
(* corners of a triangle, with a record of the handler that ran last;      *)
(* SpecView, the base layer selection; SpecPip, pointInPolygon alone.      *)
(* A polygon is the vertex list the source hands to L.polygon.             *)
(***************************************************************************)
EXTENDS Integers, Sequences, FiniteSets, TLC

VARIABLES
    pc,                 \* position of init(): "import", "initfetch", "ready", "returned"
    cancelled,          \* closure flag set by the effect cleanup
    mapRef,             \* "null", "map", "removed"
    zoom,               \* mapRef.current.getZoom()
    parcelsRef,         \* ids of the cached ParcelRows
    parcelsLayer,       \* ids of the rows drawn on parcelsLayerRef
    userPolygonRef,     \* finalized filter polygon (its ring), NoShape if none
    drawingLayerRef,    \* preview shape (its ring), NoShape if none
    drawPointsRef,      \* in-progress vertex sequence
    isDrawingRef,
    showZoomMessageRef,
    hasUserPolygonRef,
    count,
    loading,
    errorMsg,
    showZoomMessage,
    isDrawing,
    hasUserPolygon,
    drawButtonDisabled, \* the button carries class "leaflet-disabled"
    timers,             \* remaining ms of each pending setTimeout, oldest first
    timeout,            \* closure variable of the moveend handler: "null" or "handle"
    inflight,           \* remote queries awaiting their response, in issue order
    sinceEvent,         \* ms since the last pan/zoom event, capped at DEBOUNCE_MS
    lastFetch,          \* the latest invocation of fetchParcelsForView
    lastSettled,        \* the latest response received
    polygonsOnMap,      \* finalized polygon layers added to the map and not removed
    previewsOnMap,      \* preview polygon layers added to the map and not removed
    viewType,           \* "street" or "satellite"
    baseLayers,         \* the base tile layers the map has (map.hasLayer)
    lastOp,             \* the handler that ran last (recorded by SpecDraw)
    drawStart,          \* cache, layer and filter when drawing started (SpecDraw)
    pipIn,              \* input of pointInPolygon (SpecPIP)
    pipOut              \* its result (SpecPIP)

vars == <<pc, cancelled, mapRef, zoom, parcelsRef, parcelsLayer, userPolygonRef,
          drawingLayerRef, drawPointsRef, isDrawingRef, showZoomMessageRef,
          hasUserPolygonRef, count, loading, errorMsg, showZoomMessage,
          isDrawing, hasUserPolygon, drawButtonDisabled, timers, timeout,
          inflight, sinceEvent, lastFetch, lastSettled, polygonsOnMap,
          previewsOnMap, viewType, baseLayers, lastOp, drawStart, pipIn, pipOut>>

viewVars == <<viewType, baseLayers>>

histVars == <<lastOp, drawStart>>

pipVars == <<pipIn, pipOut>>

----------------------------------------------------------------------------
(* Program constants *)

FETCH_ZOOM_THRESHOLD == 16

DRAW_ZOOM_THRESHOLD == 16

INITIAL_ZOOM == 16

DEBOUNCE_MS == 200

MIN_VERTICES == 3

MAX_VERTICES == 4

(* Bounds of the model *)

ZoomSpan == 1

MaxInflight == 2

PipGrid == 4

ZoomLevels == (FETCH_ZOOM_THRESHOLD - ZoomSpan)..(FETCH_ZOOM_THRESHOLD + ZoomSpan)

TickMs == DEBOUNCE_MS \div 2

NoShape == <<>>

NoError == "null"

NoStart == [set |-> FALSE, cache |-> {}, layer |-> {}, polygon |-> <<>>]

NoPipInput == [ring |-> <<>>, lon |-> 0, lat |-> 0, where |-> "boundary"]

(* Points the user can click, as latitude/longitude on an integer grid. *)
ClickPoints ==
    { [lat |-> 0, lng |-> 0], [lat |-> 4, lng |-> 4] }

(* Rows of the remote table inside the viewport.  geometry: the geometry is
   non-null; coords: lat and lon are both non-null. *)
ParcelRows ==
    { [id |-> 1, geometry |-> TRUE,  coords |-> TRUE,  lat |-> 1, lon |-> 1],
      [id |-> 2, geometry |-> FALSE, coords |-> TRUE,  lat |-> 1, lon |-> 1],
      [id |-> 3, geometry |-> TRUE,  coords |-> FALSE, lat |-> 0, lon |-> 0],
      [id |-> 4, geometry |-> TRUE,  coords |-> TRUE,  lat |-> 3, lon |-> 3] }

RowIds == { r.id : r \in ParcelRows }

Row(i) == CHOOSE r \in ParcelRows : r.id = i

(* What the remote store can answer: an error, or rows of the viewport. *)
ResponseData == { {}, {2}, {1, 2}, {1, 2, 3} }

Responses ==
    { [error |-> TRUE, data |-> {}] } \cup
    { [error |-> FALSE, data |-> d] : d \in ResponseData }

(* The corners of a triangle that holds the centroid of row 1 and not that
   of row 4. *)
DrawPoints ==
    { [lat |-> 0, lng |-> 0], [lat |-> 0, lng |-> 4], [lat |-> 4, lng |-> 0] }

(* Answers while the user draws: an error, or every row of the viewport. *)
DrawResponses ==
    { [error |-> TRUE, data |-> {}], [error |-> FALSE, data |-> RowIds] }

Min(a, b) == IF a < b THEN a ELSE b

----------------------------------------------------------------------------
(* Pure helpers of the component *)

(* One edge (i, j) of the ray cast.  The quotient of the source,
   (xj - xi) * (lat - yi) / ((yj - yi) || 1e-12) + xi, is only evaluated when
   the first conjunct holds (&& short-circuits), hence with yi # yj; on the
   integer grid the comparison lon < quotient + xi is then decided exactly by
   cross-multiplying with the sign of the denominator. *)
intersect(lon, lat, pi, pj) ==
    LET xi == pi.lng
        yi == pi.lat
        xj == pj.lng
        yj == pj.lat
        num == (xj - xi) * (lat - yi)
        den == yj - yi
    IN  /\ (yi > lat) # (yj > lat)
        /\ IF den > 0 THEN (lon - xi) * den < num
                      ELSE (lon - xi) * den > num

(* pointInPolygon with the loop started at i = 1, j = 0: the edge that closes
   the ring is never visited. *)
PipWithoutClosingEdge(lon, lat, polygonLatLngs) ==
    LET n == Len(polygonLatLngs)
        crossing == { i \in 2..n :
                        intersect(lon, lat, polygonLatLngs[i], polygonLatLngs[i - 1]) }
    IN  Cardinality(crossing) % 2 = 1

(* pointInPolygon: inside is toggled once per intersecting edge, with
   j = length - 1 for i = 0 and j = i - 1 afterwards. *)
pointInPolygon(lon, lat, polygonLatLngs) ==
    LET n == Len(polygonLatLngs)
        prev(i) == IF i = 1 THEN n ELSE i - 1
        crossing == { i \in 1..n :
                        intersect(lon, lat, polygonLatLngs[i], polygonLatLngs[prev(i)]) }
    IN  Cardinality(crossing) % 2 = 1

(* The arguments pointInPolygon is applied to: a ring of 3 or 4 vertices on
   the even points of the grid 0..PipGrid, no three of them on a line,
   simple, given open or closed by a repeat of its first vertex, and a test
   point of the grid; where tells on which side of the ring the point lies, from the
   signs of cross products.  A quadrilateral is simple exactly when one of
   its diagonals separates the other two vertices, and it is then the two
   triangles on that diagonal. *)
PipInputs ==
    LET even == { k \in 0..PipGrid : k % 2 = 0 }
        V == { [lat |-> a, lng |-> b] : a, b \in even }
        P == { [lat |-> a, lng |-> b] : a, b \in 0..PipGrid }
        cross(o, a, b) ==
            (a.lng - o.lng) * (b.lat - o.lat) - (a.lat - o.lat) * (b.lng - o.lng)
        inTri(p, a, b, c) ==
            \/ cross(a, b, p) > 0 /\ cross(b, c, p) > 0 /\ cross(c, a, p) > 0
            \/ cross(a, b, p) < 0 /\ cross(b, c, p) < 0 /\ cross(c, a, p) < 0
        offTri(p, a, b, c) ==
            /\ \/ cross(a, b, p) < 0 \/ cross(b, c, p) < 0 \/ cross(c, a, p) < 0
            /\ \/ cross(a, b, p) > 0 \/ cross(b, c, p) > 0 \/ cross(c, a, p) > 0
        between(p, a, c) ==
            /\ cross(a, c, p) = 0
            /\ (p.lng - a.lng) * (c.lng - a.lng) + (p.lat - a.lat) * (c.lat - a.lat) > 0
            /\ (p.lng - c.lng) * (a.lng - c.lng) + (p.lat - c.lat) * (a.lat - c.lat) > 0
        splits(a, c, b, d) == cross(a, c, b) * cross(a, c, d) < 0
        triangles ==
            { t \in V \X V \X V : cross(t[1], t[2], t[3]) # 0 }
        quads ==
            { q \in V \X V \X V \X V :
                /\ cross(q[1], q[2], q[3]) # 0
                /\ cross(q[2], q[3], q[4]) # 0
                /\ cross(q[3], q[4], q[1]) # 0
                /\ cross(q[4], q[1], q[2]) # 0
                /\ splits(q[1], q[3], q[2], q[4]) \/ splits(q[2], q[4], q[1], q[3]) }
        side(p, r) ==
            IF Len(r) = 3
            THEN IF inTri(p, r[1], r[2], r[3]) THEN "inside"
                 ELSE IF offTri(p, r[1], r[2], r[3]) THEN "outside"
                 ELSE "boundary"
            ELSE LET a == IF splits(r[1], r[3], r[2], r[4]) THEN r[1] ELSE r[2]
                     b == IF splits(r[1], r[3], r[2], r[4]) THEN r[2] ELSE r[3]
                     c == IF splits(r[1], r[3], r[2], r[4]) THEN r[3] ELSE r[4]
                     d == IF splits(r[1], r[3], r[2], r[4]) THEN r[4] ELSE r[1]
                 IN  IF inTri(p, a, b, c) \/ inTri(p, a, c, d) \/ between(p, a, c)
                     THEN "inside"
                     ELSE IF offTri(p, a, b, c) /\ offTri(p, a, c, d)
                     THEN "outside"
                     ELSE "boundary"
    IN  { [ring |-> IF closed THEN Append(r, r[1]) ELSE r,
           lon |-> p.lng, lat |-> p.lat, where |-> side(p, r)] :
             r \in triangles \cup quads, p \in P, closed \in BOOLEAN }

(* updateDrawButtonState: the class the button gets from the three refs. *)
updateDrawButtonState(show, hasPolygon, drawing) ==
    show \/ hasPolygon \/ drawing

(* redrawParcels without the zoom test of line 140. *)
RedrawIgnoringZoom(cache, polygon, z) ==
    { i \in cache :
        /\ Row(i).geometry
        /\ (polygon # NoShape /\ Row(i).coords)
              => pointInPolygon(Row(i).lon, Row(i).lat, polygon) }

(* redrawParcels that skips the rows without centroid coordinates. *)
RedrawOnlyLocated(cache, polygon, z) ==
    IF z < DRAW_ZOOM_THRESHOLD
    THEN {}
    ELSE { i \in cache :
             /\ Row(i).geometry
             /\ Row(i).coords
             /\ polygon # NoShape
                   => pointInPolygon(Row(i).lon, Row(i).lat, polygon) }

(* redrawParcels that never reads the filter polygon. *)
RedrawUnfiltered(cache, polygon, z) ==
    IF z < DRAW_ZOOM_THRESHOLD THEN {} ELSE { i \in cache : Row(i).geometry }

(* redrawParcels: the contents of the parcel layer after the call. *)
redrawParcels(cache, polygon, z) ==
    IF z < DRAW_ZOOM_THRESHOLD
    THEN {}
    ELSE { i \in cache :
             /\ Row(i).geometry
             /\ (polygon # NoShape /\ Row(i).coords)
                   => pointInPolygon(Row(i).lon, Row(i).lat, polygon) }

(* fetchParcelsForView without the isDrawingRef test of line 197. *)
FetchEvenWhileDrawing(drawing) == FALSE

(* fetchParcelsForView, "do NOT fetch while drawing". *)
fetchSuppressed(drawing) == drawing

(* A response handler that caches the rows as they came. *)
KeepAllRows(data) == data

(* fetchParcelsForView, const cleaned = (data ?? []).filter(p => p.geometry). *)
cleaned(data) == { i \in data : Row(i).geometry }

(* An error branch that forgets to empty the cache. *)
KeepCacheOnError(resp, old) ==
    IF resp.error THEN old ELSE cleaned(resp.data)

(* fetchParcelsForView after the await: the cache a response leaves. *)
settledParcels(resp, old) ==
    IF resp.error THEN {} ELSE cleaned(resp.data)

(* A response handler that skips the redraw for a query overtaken by a
   later one. *)
KeepLayerWhenOvertaken(resp, req, cache, polygon, z, old) ==
    IF req.overtaken THEN old
    ELSE IF resp.error THEN {} ELSE redrawParcels(cache, polygon, z)

(* fetchParcelsForView after the await: the layer a response leaves. *)
settledLayer(resp, req, cache, polygon, z, old) ==
    IF resp.error THEN {} ELSE redrawParcels(cache, polygon, z)

(* finishDrawing with an off-by-one vertex test. *)
AcceptTwoPoints(pts) == Len(pts) < MIN_VERTICES - 1

(* finishDrawing without the vertex test. *)
NeverTooFew(pts) == FALSE

(* finishDrawing, drawPointsRef.current.length < 3. *)
tooFewPoints(pts) == Len(pts) < MIN_VERTICES

(* finishDrawing that keeps a triangle of whatever was clicked. *)
FirstThreePoints(pts) ==
    IF Len(pts) > MIN_VERTICES THEN SubSeq(pts, 1, MIN_VERTICES) ELSE pts

(* finishDrawing, finalPoints. *)
finalPoints(pts) ==
    IF Len(pts) > MAX_VERTICES THEN SubSeq(pts, 1, MAX_VERTICES) ELSE pts

(* A drawing session that leaves its shape on the map. *)
LeaveLayer(ref, n) == n

(* if (ref.current) ref.current.remove(): the shapes of that kind left on the
   map, of n. *)
removeLayer(ref, n) == IF ref # NoShape THEN n - 1 ELSE n

(* startDrawing that may start over a finalized polygon. *)
StartIgnoringPolygon(show, hasPolygon, drawing) == show \/ drawing

(* startDrawing that only refuses to restart a drawing. *)
StartUnlessDrawing(show, hasPolygon, drawing) == drawing

(* startDrawing, the guard that makes the call a no-op. *)
startBlocked(show, hasPolygon, drawing) == show \/ hasPolygon \/ drawing

(* The base layer effect with the map and both layers present. *)
toggleBaseLayer(v, layers) ==
    IF v = "satellite"
    THEN (layers \ {"street"}) \cup {"satellite"}
    ELSE (layers \ {"satellite"}) \cup {"street"}

(* clearTimeout(timeout): timers of equal delay fire oldest first, so the
   timer the handle names, if still pending, is the newest one. *)
clearTimeout(handle, pending) ==
    IF handle # "null" /\ pending # <<>>
    THEN SubSeq(pending, 1, Len(pending) - 1)
    ELSE pending

(* The queue of queries after the one at position i has settled; the queries
   issued before it are marked as overtaken by a later one. *)
RemoveAt(q, i) ==
    [ k \in 1..(Len(q) - 1) |->
        IF k < i THEN [q[k] EXCEPT !.overtaken = TRUE] ELSE q[k + 1] ]

----------------------------------------------------------------------------
(* The component after its first render, before init() has got the library. *)
Mounted ==
    /\ pc = "import"
    /\ cancelled = FALSE
    /\ mapRef = "null"
    /\ zoom = INITIAL_ZOOM
    /\ parcelsRef = {}
    /\ parcelsLayer = {}
    /\ userPolygonRef = NoShape
    /\ drawingLayerRef = NoShape
    /\ drawPointsRef = <<>>
    /\ isDrawingRef = FALSE
    /\ showZoomMessageRef = FALSE
    /\ hasUserPolygonRef = FALSE
    /\ count = 0
    /\ loading = FALSE
    /\ errorMsg = NoError
    /\ showZoomMessage = FALSE
    /\ isDrawing = FALSE
    /\ hasUserPolygon = FALSE
    /\ drawButtonDisabled = FALSE
    /\ timers = <<>>
    /\ timeout = "null"
    /\ inflight = <<>>
    /\ sinceEvent = DEBOUNCE_MS
    /\ lastFetch = [trigger |-> "none", outcome |-> "none"]
    /\ lastSettled = [kind |-> "none", data |-> {}, overtaken |-> FALSE]
    /\ polygonsOnMap = 0
    /\ previewsOnMap = 0
    /\ viewType = "satellite"
    /\ baseLayers = {}
    /\ lastOp = "none"
    /\ drawStart = NoStart

Init ==
    /\ Mounted
    /\ pipIn = NoPipInput
    /\ pipOut = "none"

drawVars == <<userPolygonRef, drawingLayerRef, drawPointsRef, isDrawingRef,
              hasUserPolygonRef, isDrawing, hasUserPolygon, polygonsOnMap,
              previewsOnMap>>

(* The query of fetchParcelsForView is reached from zoom level z. *)
ReachesQuery(z) == z >= FETCH_ZOOM_THRESHOLD /\ ~fetchSuppressed(isDrawingRef)

WithinBound(z) == ReachesQuery(z) => Len(inflight) < MaxInflight

(* fetchParcelsForView up to its await, called by trig at zoom level z.  On a
   removed map getBounds() either still answers or throws, depending on the
   library build; the finally block then resets loading. *)
fetchParcelsForView(trig, z) ==
    IF z < FETCH_ZOOM_THRESHOLD
    THEN /\ showZoomMessage' = TRUE
         /\ showZoomMessageRef' = TRUE
         /\ parcelsRef' = {}
         /\ parcelsLayer' = {}
         /\ count' = 0
         /\ drawButtonDisabled' =
                updateDrawButtonState(TRUE, hasUserPolygonRef, isDrawingRef)
         /\ lastFetch' = [trigger |-> trig, outcome |-> "cleared"]
         /\ UNCHANGED <<loading, errorMsg, inflight>>
    ELSE /\ showZoomMessage' = FALSE
         /\ showZoomMessageRef' = FALSE
         /\ drawButtonDisabled' =
                updateDrawButtonState(FALSE, hasUserPolygonRef, isDrawingRef)
         /\ UNCHANGED <<parcelsRef, parcelsLayer, count>>
         /\ IF fetchSuppressed(isDrawingRef)
            THEN /\ lastFetch' = [trigger |-> trig, outcome |-> "drawing"]
                 /\ UNCHANGED <<loading, errorMsg, inflight>>
            ELSE /\ errorMsg' = NoError
                 /\ \/ /\ loading' = TRUE
                       /\ inflight' = Append(inflight, [overtaken |-> FALSE])
                       /\ lastFetch' = [trigger |-> trig, outcome |-> "issued"]
                    \/ /\ mapRef = "removed"
                       /\ loading' = FALSE
                       /\ lastFetch' = [trigger |-> trig, outcome |-> "threw"]
                       /\ UNCHANGED inflight

(* init() after "await import": returns if the effect was cleaned up, else
   creates the map at zoom 16, adds the draw control, subscribes click and
   dblclick and starts the initial fetch. *)
ImportDone ==
    /\ pc = "import"
    /\ IF cancelled
       THEN /\ pc' = "returned"
            /\ UNCHANGED <<cancelled, mapRef, zoom, parcelsRef, parcelsLayer,
                           count, loading, errorMsg, showZoomMessage,
                           showZoomMessageRef, drawButtonDisabled, timers,
                           timeout, inflight, sinceEvent, lastFetch, lastSettled,
                           baseLayers>>
       ELSE /\ pc' = "initfetch"
            /\ mapRef' = "map"
            /\ baseLayers' = {"satellite"}
            /\ fetchParcelsForView("init", INITIAL_ZOOM)
            /\ UNCHANGED <<cancelled, zoom, timers, timeout, sinceEvent, lastSettled>>
    /\ UNCHANGED viewType
    /\ UNCHANGED drawVars

(* The effect cleanup: cancelled = true; mapRef.current.remove(). *)
Teardown ==
    /\ ~cancelled
    /\ cancelled' = TRUE
    /\ mapRef' = IF mapRef = "map" THEN "removed" ELSE mapRef
    /\ UNCHANGED <<pc, zoom, parcelsRef, parcelsLayer, count, loading, errorMsg,
                   showZoomMessage, showZoomMessageRef, drawButtonDisabled,
                   timers, timeout, inflight, sinceEvent, lastFetch, lastSettled>>
    /\ UNCHANGED drawVars

(* The moveend handler: restart the debounce timer. *)
MoveEndHandler ==
    /\ timers' = Append(clearTimeout(timeout, timers), DEBOUNCE_MS)
    /\ timeout' = "handle"

(* The user pans the map: moveend. *)
Pan ==
    /\ mapRef = "map"
    /\ sinceEvent' = 0
    /\ IF pc = "ready" THEN MoveEndHandler ELSE UNCHANGED <<timers, timeout>>
    /\ UNCHANGED <<pc, cancelled, mapRef, zoom, parcelsRef, parcelsLayer, count,
                   loading, errorMsg, showZoomMessage, showZoomMessageRef,
                   drawButtonDisabled, inflight, lastFetch, lastSettled>>
    /\ UNCHANGED drawVars

(* The zoomend handler at the new zoom level z. *)
ZoomEndHandler(z) ==
    IF z < FETCH_ZOOM_THRESHOLD
    THEN /\ showZoomMessage' = TRUE
         /\ showZoomMessageRef' = TRUE
         /\ drawButtonDisabled' =
                updateDrawButtonState(TRUE, hasUserPolygonRef, isDrawingRef)
         /\ parcelsLayer' = {}
         /\ UNCHANGED <<parcelsRef, count, loading, errorMsg, inflight, lastFetch>>
    ELSE fetchParcelsForView("zoomend", z)

(* The user zooms to level z: zoomend, then moveend. *)
Zoom(z) ==
    /\ mapRef = "map"
    /\ z # zoom
    /\ zoom' = z
    /\ sinceEvent' = 0
    /\ IF pc = "ready"
       THEN /\ WithinBound(z)
            /\ ZoomEndHandler(z)
            /\ MoveEndHandler
       ELSE UNCHANGED <<parcelsRef, parcelsLayer, count, loading, errorMsg,
                           showZoomMessage, showZoomMessageRef,
                           drawButtonDisabled, inflight, lastFetch, timers,
                           timeout>>
    /\ UNCHANGED <<pc, cancelled, mapRef, lastSettled>>
    /\ UNCHANGED drawVars

(* 100 ms pass; a timer that is due fires before more time passes. *)
Tick ==
    /\ \A k \in 1..Len(timers) : timers[k] > 0
    /\ timers # <<>> \/ sinceEvent < DEBOUNCE_MS
    /\ timers' = [ k \in 1..Len(timers) |-> timers[k] - TickMs ]
    /\ sinceEvent' = Min(sinceEvent + TickMs, DEBOUNCE_MS)
    /\ UNCHANGED <<pc, cancelled, mapRef, zoom, parcelsRef, parcelsLayer, count,
                   loading, errorMsg, showZoomMessage, showZoomMessageRef,
                   drawButtonDisabled, timeout, inflight, lastFetch, lastSettled>>
    /\ UNCHANGED drawVars

(* The debounce timer fires: setTimeout(fetchParcelsForView, 200). *)
TimerFire ==
    /\ timers # <<>>
    /\ Head(timers) = 0
    /\ WithinBound(zoom)
    /\ timers' = Tail(timers)
    /\ fetchParcelsForView("moveend", zoom)
    /\ UNCHANGED <<pc, cancelled, mapRef, zoom, timeout, sinceEvent, lastSettled>>
    /\ UNCHANGED drawVars

(* The query at position i of the queue settles with resp; when it is the
   initial fetch, init() goes on to subscribe moveend and zoomend. *)
Settle(i, resp) ==
    /\ i \in 1..Len(inflight)
    /\ inflight' = RemoveAt(inflight, i)
    /\ parcelsRef' = settledParcels(resp, parcelsRef)
    /\ count' = IF resp.error THEN 0 ELSE Cardinality(cleaned(resp.data))
    /\ errorMsg' = IF resp.error THEN "error" ELSE errorMsg
    /\ parcelsLayer' = settledLayer(resp, inflight[i], parcelsRef',
                                    userPolygonRef, zoom, parcelsLayer)
    /\ loading' = FALSE
    /\ lastSettled' = [kind |-> IF resp.error THEN "error" ELSE "ok",
                       data |-> resp.data,
                       overtaken |-> inflight[i].overtaken]
    /\ pc' = IF pc = "initfetch" THEN "ready" ELSE pc
    /\ UNCHANGED <<cancelled, mapRef, zoom, showZoomMessage, showZoomMessageRef,
                   drawButtonDisabled, timers, timeout, sinceEvent,
                   lastFetch>>
    /\ UNCHANGED drawVars

netVars == <<pc, cancelled, mapRef, zoom, parcelsRef, count, loading, errorMsg,
             showZoomMessage, showZoomMessageRef, timers, timeout, inflight,
             sinceEvent, lastFetch, lastSettled>>

(* startDrawing, from the draw control; a no-op unless the guard passes. *)
StartDrawing ==
    /\ mapRef = "map"
    /\ IF startBlocked(showZoomMessageRef, hasUserPolygonRef, isDrawingRef)
       THEN UNCHANGED <<drawVars, drawButtonDisabled, parcelsLayer>>
       ELSE /\ isDrawingRef' = TRUE
            /\ isDrawing' = TRUE
            /\ drawPointsRef' = <<>>
            /\ drawingLayerRef' = NoShape
            /\ previewsOnMap' = removeLayer(drawingLayerRef, previewsOnMap)
            /\ drawButtonDisabled' =
                   updateDrawButtonState(showZoomMessageRef, hasUserPolygonRef, TRUE)
            /\ UNCHANGED <<userPolygonRef, hasUserPolygonRef, hasUserPolygon,
                           parcelsLayer, polygonsOnMap>>
    /\ UNCHANGED netVars

(* finishDrawing with the vertex sequence pts, drawing being active, the
   preview being layer, one of n previews on the map. *)
finishDrawing(pts, layer, n) ==
    /\ isDrawingRef' = FALSE
    /\ isDrawing' = FALSE
    /\ drawingLayerRef' = NoShape
    /\ previewsOnMap' = removeLayer(layer, n)
    /\ drawPointsRef' = <<>>
    /\ IF tooFewPoints(pts)
       THEN /\ drawButtonDisabled' =
                   updateDrawButtonState(showZoomMessageRef, hasUserPolygonRef, FALSE)
            /\ UNCHANGED <<userPolygonRef, hasUserPolygonRef, hasUserPolygon,
                           parcelsLayer, polygonsOnMap>>
       ELSE /\ userPolygonRef' = finalPoints(pts)
            /\ polygonsOnMap' = removeLayer(userPolygonRef, polygonsOnMap) + 1
            /\ hasUserPolygon' = TRUE
            /\ hasUserPolygonRef' = TRUE
            /\ drawButtonDisabled' =
                   updateDrawButtonState(showZoomMessageRef, TRUE, FALSE)
            /\ parcelsLayer' = redrawParcels(parcelsRef, userPolygonRef', zoom)

(* The map click handler: add a vertex, auto-finish at 4 points. *)
Click(p) ==
    /\ mapRef = "map"
    /\ isDrawingRef
    /\ LET pts == Append(drawPointsRef, p)
           shown == IF drawingLayerRef = NoShape
                    THEN previewsOnMap + 1 ELSE previewsOnMap
       IN  IF Len(pts) >= MAX_VERTICES
           THEN finishDrawing(pts, pts, shown)
           ELSE /\ drawPointsRef' = pts
                /\ drawingLayerRef' = pts
                /\ previewsOnMap' = shown
                /\ UNCHANGED <<userPolygonRef, isDrawingRef, hasUserPolygonRef,
                               isDrawing, hasUserPolygon, drawButtonDisabled,
                               parcelsLayer, polygonsOnMap>>
    /\ UNCHANGED netVars

(* The map dblclick handler. *)
DblClick ==
    /\ mapRef = "map"
    /\ isDrawingRef
    /\ finishDrawing(drawPointsRef, drawingLayerRef, previewsOnMap)
    /\ UNCHANGED netVars

(* handleDeletePolygon, from the button rendered while hasUserPolygon. *)
DeletePolygon ==
    /\ mapRef = "map"
    /\ hasUserPolygon
    /\ userPolygonRef' = NoShape
    /\ polygonsOnMap' = removeLayer(userPolygonRef, polygonsOnMap)
    /\ drawingLayerRef' = NoShape
    /\ previewsOnMap' = removeLayer(drawingLayerRef, previewsOnMap)
    /\ drawPointsRef' = <<>>
    /\ isDrawingRef' = FALSE
    /\ isDrawing' = FALSE
    /\ hasUserPolygon' = FALSE
    /\ hasUserPolygonRef' = FALSE
    /\ parcelsLayer' = redrawParcels(parcelsRef, userPolygonRef', zoom)
    /\ drawButtonDisabled' = FALSE
    /\ UNCHANGED netVars

(* A base layer button of the control panel: setViewType(v), then the effect
   of [viewType], which runs when the value changed and returns early while
   the map or a layer ref is unset. *)
SetViewType(v) ==
    /\ ~cancelled
    /\ v # viewType
    /\ viewType' = v
    /\ baseLayers' = IF mapRef = "null" THEN baseLayers
                     ELSE toggleBaseLayer(v, baseLayers)
    /\ UNCHANGED <<pc, cancelled, mapRef, zoom, parcelsRef, parcelsLayer, count,
                   loading, errorMsg, showZoomMessage, showZoomMessageRef,
                   drawButtonDisabled, timers, timeout, inflight, sinceEvent,
                   lastFetch, lastSettled>>
    /\ UNCHANGED drawVars

(* The fetch / draw cycle: every handler of the parcel fetcher and of the draw
   controller, the base layer left as created. *)
Next ==
    \/ ImportDone /\ UNCHANGED <<histVars, pipVars>>
    \/ Teardown /\ UNCHANGED <<viewVars, histVars, pipVars>>
    \/ Pan /\ UNCHANGED <<viewVars, histVars, pipVars>>
    \/ \E z \in ZoomLevels : Zoom(z) /\ UNCHANGED <<viewVars, histVars, pipVars>>
    \/ Tick /\ UNCHANGED <<viewVars, histVars, pipVars>>
    \/ TimerFire /\ UNCHANGED <<viewVars, histVars, pipVars>>
    \/ \E i \in 1..MaxInflight, resp \in Responses :
          Settle(i, resp) /\ UNCHANGED <<viewVars, histVars, pipVars>>
    \/ StartDrawing /\ UNCHANGED <<viewVars, histVars, pipVars>>
    \/ \E p \in ClickPoints : Click(p) /\ UNCHANGED <<viewVars, histVars, pipVars>>
    \/ DblClick /\ UNCHANGED <<viewVars, histVars, pipVars>>
    \/ DeletePolygon /\ UNCHANGED <<viewVars, histVars, pipVars>>

Spec == Init /\ [][Next]_vars

(* The base layer buttons on top of the component's lifecycle, map events and
   responses; nobody draws. *)
NextView ==
    \/ ImportDone /\ UNCHANGED <<histVars, pipVars>>
    \/ Teardown /\ UNCHANGED <<viewVars, histVars, pipVars>>
    \/ Pan /\ UNCHANGED <<viewVars, histVars, pipVars>>
    \/ \E z \in ZoomLevels : Zoom(z) /\ UNCHANGED <<viewVars, histVars, pipVars>>
    \/ Tick /\ UNCHANGED <<viewVars, histVars, pipVars>>
    \/ TimerFire /\ UNCHANGED <<viewVars, histVars, pipVars>>
    \/ \E i \in 1..MaxInflight, resp \in Responses :
          Settle(i, resp) /\ UNCHANGED <<viewVars, histVars, pipVars>>
    \/ \E v \in {"street", "satellite"} :
          SetViewType(v) /\ UNCHANGED <<histVars, pipVars>>

SpecView == Init /\ [][NextView]_vars

(* pointInPolygon is called on pipIn and returns. *)
PipCall ==
    /\ pipOut = "none"
    /\ pipOut' = IF pointInPolygon(pipIn.lon, pipIn.lat, pipIn.ring)
                 THEN "true" ELSE "false"
    /\ UNCHANGED <<pc, cancelled, mapRef, zoom, parcelsRef, parcelsLayer, count,
                   loading, errorMsg, showZoomMessage, showZoomMessageRef,
                   drawButtonDisabled, timers, timeout, inflight, sinceEvent,
                   lastFetch, lastSettled, pipIn>>
    /\ UNCHANGED <<drawVars, viewVars, histVars>>

InitPip ==
    /\ Mounted
    /\ pipIn \in PipInputs
    /\ pipOut = "none"

NextPip == PipCall

(* pointInPolygon on its own, over every ring and test point of PipInputs. *)
SpecPip == InitPip /\ [][NextPip]_vars

(* A handler has run: op is the last one, and drawStart holds the cache, the
   layer and the filter polygon of the moment drawing started, for as long as
   drawing lasts. *)
Record(op) ==
    /\ lastOp' = op
    /\ drawStart' =
          IF ~isDrawingRef' THEN NoStart
          ELSE IF isDrawingRef THEN drawStart
          ELSE [set |-> TRUE, cache |-> parcelsRef, layer |-> parcelsLayer,
                polygon |-> userPolygonRef]
    /\ UNCHANGED pipVars

(* The draw controller on a mounted component, over the corners of a
   triangle, with the zoom changes and the responses that can interleave.
   The debounce timer a zoom change arms stays pending here: what its firing
   does is the subject of Spec. *)
NextDraw ==
    \/ ImportDone /\ Record("init")
    \/ \E z \in ZoomLevels : Zoom(z) /\ Record("zoomend") /\ UNCHANGED viewVars
    \/ \E i \in 1..MaxInflight, resp \in DrawResponses :
          Settle(i, resp) /\ Record("response") /\ UNCHANGED viewVars
    \/ StartDrawing /\ Record("startDrawing") /\ UNCHANGED viewVars
    \/ \E p \in DrawPoints : Click(p) /\ Record("click") /\ UNCHANGED viewVars
    \/ DblClick /\ Record("dblclick") /\ UNCHANGED viewVars
    \/ DeletePolygon /\ Record("deletePolygon") /\ UNCHANGED viewVars

SpecDraw == Init /\ [][NextDraw]_vars

----------------------------------------------------------------------------
(* Properties *)

(* C1: no remote query is started by a step taken while drawing mode is
   active, whichever handler (initial load, debounce timer, zoomend) calls
   fetchParcelsForView. *)
C1_NoQueryWhileDrawing ==
    [][isDrawingRef => Len(inflight') <= Len(inflight)]_vars

(* fetchParcelsForView was called above the threshold while drawing and
   returned before the query. *)
C1_Witness ==
    /\ isDrawingRef
    /\ lastFetch.outcome = "drawing"
    /\ zoom >= FETCH_ZOOM_THRESHOLD

(* C2: whenever the zoom is below the fetch threshold and no debounce timer
   is pending, the parcel cache is empty and the count is 0. *)
C2_Original ==
    (zoom < FETCH_ZOOM_THRESHOLD /\ timers = <<>>)
        => (parcelsRef = {} /\ count = 0)

(* C3: whenever the zoom is below the draw/render threshold the parcel layer
   holds no shape. *)
C3_LayerEmptyBelowThreshold ==
    zoom < DRAW_ZOOM_THRESHOLD => parcelsLayer = {}

(* A response has filled the cache while the map is zoomed out, the polygon
   filter being set, and nothing is drawn. *)
C3_Witness ==
    /\ zoom < DRAW_ZOOM_THRESHOLD
    /\ lastSettled.kind = "ok"
    /\ parcelsRef # {}
    /\ pc = "ready"
    /\ parcelsLayer = {}

(* C4: once the map exists, the zoom advisory (state and ref) is shown
   exactly when the zoom is below the fetch threshold. *)
C4_Original ==
    mapRef = "map" =>
        /\ showZoomMessage = (zoom < FETCH_ZOOM_THRESHOLD)
        /\ showZoomMessageRef = (zoom < FETCH_ZOOM_THRESHOLD)

(* C5: a finalized filter polygon has 3 or 4 vertices and the in-progress
   vertex sequence never holds more than 4 points. *)
C5_PolygonVertexBounds ==
    /\ userPolygonRef # NoShape =>
          /\ Len(userPolygonRef) >= MIN_VERTICES
          /\ Len(userPolygonRef) <= MAX_VERTICES
    /\ hasUserPolygonRef => userPolygonRef # NoShape
    /\ Len(drawPointsRef) <= MAX_VERTICES

(* A polygon finished by double-click on three vertices is the filter. *)
C5_Witness ==
    /\ hasUserPolygonRef
    /\ Len(userPolygonRef) = MIN_VERTICES
    /\ ~isDrawingRef
    /\ drawPointsRef = <<>>

(* C6: the draw button carries the disabled marker exactly when the advisory
   is showing, a finalized polygon exists or drawing is in progress. *)
C6_Original ==
    mapRef # "null" =>
        (drawButtonDisabled <=>
            (showZoomMessageRef \/ hasUserPolygonRef \/ isDrawingRef))

(* C7: a step in which a response settles leaves the cache, the count and
   the layer of that response, whatever the order of issue; and the cache
   changes in no other step than a settling one or a below-threshold clear. *)
C7_LastSettledWins ==
    [][ /\ Len(inflight') < Len(inflight) =>
             /\ parcelsRef' = IF lastSettled'.kind = "error"
                              THEN {} ELSE cleaned(lastSettled'.data)
             /\ count' = Cardinality(parcelsRef')
             /\ parcelsLayer' = redrawParcels(parcelsRef', userPolygonRef', zoom')
        /\ parcelsRef' # parcelsRef =>
             \/ Len(inflight') < Len(inflight)
             \/ zoom' < FETCH_ZOOM_THRESHOLD /\ parcelsRef' = {} ]_vars

(* All queries have settled, the last response to arrive belongs to a query
   that was issued before one that settled earlier, and it is what is cached
   and drawn. *)
C7_Witness ==
    /\ inflight = <<>>
    /\ lastSettled.kind = "ok"
    /\ lastSettled.overtaken
    /\ parcelsRef = cleaned(lastSettled.data)
    /\ count = Cardinality(parcelsRef)
    /\ parcelsLayer # {}

(* C8: at most one debounce timer is pending, and a query caused by pan/zoom
   events is issued only once the events have been quiet for the period,
   leaving no timer of the burst behind to issue a second one. *)
C8_Original ==
    [][ /\ Len(timers') <= 1
        /\ (pc = "ready" /\ Len(inflight') > Len(inflight)) =>
              /\ sinceEvent' >= DEBOUNCE_MS
              /\ timers' = <<>> ]_vars

(* C9: after teardown no debounce timer fires, so that no query is issued
   and neither cache nor count changes because of one. *)
C9_Original ==
    [][ cancelled =>
          /\ Len(timers') >= Len(timers)
          /\ Len(inflight') <= Len(inflight) ]_vars

(* C10: a step in which a query settles with an error sets the error
   message, empties the cache, zeroes the count, clears the layer and starts
   neither a query nor a timer. *)
C10_ErrorClearsNoRetry ==
    [][ (Len(inflight') < Len(inflight) /\ lastSettled'.kind = "error") =>
          /\ errorMsg' # NoError
          /\ parcelsRef' = {}
          /\ count' = 0
          /\ parcelsLayer' = {}
          /\ Len(inflight') = Len(inflight) - 1
          /\ timers' = timers ]_vars

(* An error has arrived above the threshold with the handlers subscribed. *)
C10_Witness ==
    /\ lastSettled.kind = "error"
    /\ errorMsg # NoError
    /\ pc = "ready"
    /\ zoom >= FETCH_ZOOM_THRESHOLD
    /\ parcelsRef = {}
    /\ parcelsLayer = {}

(* C11: every cached parcel has a geometry and the displayed count is the
   size of the cache; a response without error replaces the cache by exactly
   the rows of the response that have a geometry. *)
C11_CacheHoldsGeometryRows ==
    /\ [](/\ \A r \in parcelsRef : Row(r).geometry
          /\ count = Cardinality(parcelsRef))
    /\ [][\A i \in 1..MaxInflight, resp \in Responses :
            (Settle(i, resp) /\ ~resp.error) =>
                parcelsRef' = { r \in resp.data : Row(r).geometry }]_vars

(* A response with a geometry-less row has settled; the row is not cached. *)
C11_Witness ==
    /\ lastSettled.kind = "ok"
    /\ lastSettled.data = {1, 2}
    /\ parcelsRef = {1}
    /\ count = 1

(* C20: every moveend of a live map, the initial fetch being in flight or
   not, arms the debounce timer that invokes fetchParcelsForView. *)
C20_Original ==
    [][((Pan \/ \E z \in ZoomLevels : Zoom(z)) /\ ~cancelled)
          => timers' # <<>>]_vars

(* C12: finishing a drawing and deleting the polygon issue no query and leave
   the cache alone; after deletePolygon at zoom >= 16 the layer shows every
   cached parcel. *)
C12_FilterWorksOnCache ==
    [][LET finish == (DblClick \/ \E p \in DrawPoints : Click(p)) /\ ~isDrawingRef'
       IN  /\ (finish \/ DeletePolygon) =>
                 /\ inflight' = inflight
                 /\ lastFetch' = lastFetch
                 /\ loading' = loading
                 /\ parcelsRef' = parcelsRef
                 /\ count' = count
           /\ (DeletePolygon /\ zoom >= DRAW_ZOOM_THRESHOLD) =>
                 parcelsLayer' = parcelsRef']_vars

(* The polygon was deleted: the parcel outside every triangle is back. *)
C12_Witness ==
    /\ lastOp = "deletePolygon"
    /\ zoom >= DRAW_ZOOM_THRESHOLD
    /\ parcelsRef = {1, 3, 4}
    /\ parcelsLayer = {1, 3, 4}
    /\ userPolygonRef = NoShape

(* C13: clicks made while drawing append to the vertex sequence in click
   order, and the fourth click finalizes the polygon of exactly the four
   clicked points: drawing is left, the sequence is empty and the preview is
   removed. *)
C13_FourthClickFinalizes ==
    [][\A p \in DrawPoints :
          Click(p) =>
             IF Len(drawPointsRef) < MAX_VERTICES - 1
             THEN /\ drawPointsRef' = Append(drawPointsRef, p)
                  /\ isDrawingRef'
                  /\ userPolygonRef' = userPolygonRef
             ELSE /\ userPolygonRef' = Append(drawPointsRef, p)
                  /\ Len(userPolygonRef') = MAX_VERTICES
                  /\ hasUserPolygonRef' /\ hasUserPolygon'
                  /\ ~isDrawingRef' /\ ~isDrawing'
                  /\ drawPointsRef' = <<>>
                  /\ drawingLayerRef' = NoShape
                  /\ previewsOnMap' = 0]_vars

(* A fourth click has just finalized a polygon over all three corners. *)
C13_Witness ==
    /\ lastOp = "click"
    /\ ~isDrawingRef
    /\ Len(userPolygonRef) = MAX_VERTICES
    /\ { userPolygonRef[k] : k \in 1..MAX_VERTICES } = DrawPoints
    /\ drawPointsRef = <<>>
    /\ previewsOnMap = 0

(* C14, as claimed: a double-click on fewer than 3 vertices leaves drawing,
   removes the preview, clears the sequence, surfaces no error, and the
   filter, the cache and the layer are what they were when drawing
   started. *)
C14_Original ==
    [][(DblClick /\ Len(drawPointsRef) < MIN_VERTICES) =>
          /\ ~isDrawingRef' /\ ~isDrawing'
          /\ drawingLayerRef' = NoShape
          /\ previewsOnMap' = 0
          /\ drawPointsRef' = <<>>
          /\ errorMsg' = errorMsg
          /\ userPolygonRef' = drawStart.polygon
          /\ hasUserPolygonRef' = (drawStart.polygon # NoShape)
          /\ hasUserPolygon' = hasUserPolygonRef'
          /\ parcelsRef' = drawStart.cache
          /\ parcelsLayer' = drawStart.layer]_vars

(* C14, amended: a double-click on fewer than 3 vertices leaves drawing,
   removes the preview, clears the sequence and surfaces no error; the
   filter is what it was when drawing started, and the discard itself
   changes neither the cache nor the layer. *)
C14_DiscardKeepsFilter ==
    [][(DblClick /\ Len(drawPointsRef) < MIN_VERTICES) =>
          /\ ~isDrawingRef' /\ ~isDrawing'
          /\ drawingLayerRef' = NoShape
          /\ previewsOnMap' = 0
          /\ drawPointsRef' = <<>>
          /\ errorMsg' = errorMsg
          /\ userPolygonRef' = drawStart.polygon
          /\ hasUserPolygonRef' = (drawStart.polygon # NoShape)
          /\ hasUserPolygon' = hasUserPolygonRef'
          /\ parcelsRef' = parcelsRef
          /\ parcelsLayer' = parcelsLayer]_vars

(* A drawing was discarded by double-click over a layer that shows parcels. *)
C14_Witness ==
    /\ lastOp = "dblclick"
    /\ ~isDrawingRef
    /\ userPolygonRef = NoShape
    /\ ~hasUserPolygon
    /\ drawPointsRef = <<>>
    /\ parcelsLayer # {}

(* C15: startDrawing enters Drawing when no advisory shows, no polygon is
   finalized and no drawing is in progress; otherwise it changes neither
   the drawing flag, the vertex sequence, the preview, the filter polygon
   nor the cache. *)
C15_StartOnlyFromIdle ==
    [][StartDrawing =>
          IF ~showZoomMessageRef /\ ~hasUserPolygonRef /\ ~isDrawingRef
          THEN isDrawingRef' /\ isDrawing' /\ drawPointsRef' = <<>>
          ELSE /\ isDrawingRef' = isDrawingRef
               /\ isDrawing' = isDrawing
               /\ drawPointsRef' = drawPointsRef
               /\ drawingLayerRef' = drawingLayerRef
               /\ previewsOnMap' = previewsOnMap
               /\ userPolygonRef' = userPolygonRef
               /\ hasUserPolygonRef' = hasUserPolygonRef
               /\ parcelsRef' = parcelsRef
               /\ parcelsLayer' = parcelsLayer]_vars

(* startDrawing was called while a finalized polygon exists. *)
C15_Witness ==
    /\ lastOp = "startDrawing"
    /\ hasUserPolygonRef
    /\ ~isDrawingRef
    /\ ~showZoomMessageRef

(* C16: what redrawParcels renders is a function of the cache, the filter
   polygon and the zoom: nothing below zoom 16, otherwise the cached rows
   with a geometry that have no centroid, or meet no filter, or whose
   centroid is inside the filter ring; every handler that redraws leaves
   that layer, and a second call changes nothing. *)
C16_RedrawIsFunctionOfState ==
    [][LET inside(r, ring) ==
               Cardinality({ k \in 1..Len(ring) :
                   LET a == ring[k]
                       b == ring[IF k = 1 THEN Len(ring) ELSE k - 1]
                   IN  /\ (a.lat > r.lat) # (b.lat > r.lat)
                       /\ IF b.lat > a.lat
                          THEN (r.lon - a.lng) * (b.lat - a.lat)
                                  < (b.lng - a.lng) * (r.lat - a.lat)
                          ELSE (r.lon - a.lng) * (b.lat - a.lat)
                                  > (b.lng - a.lng) * (r.lat - a.lat) }) % 2 = 1
           rendered(cache, ring, z) ==
               IF z < DRAW_ZOOM_THRESHOLD THEN {}
               ELSE { i \in cache :
                        /\ Row(i).geometry
                        /\ \/ ~Row(i).coords
                           \/ ring = NoShape
                           \/ inside(Row(i), ring) }
           redraws ==
               \/ lastOp' = "response" /\ lastSettled'.kind = "ok"
               \/ lastOp' \in {"click", "dblclick"} /\ hasUserPolygonRef'
               \/ lastOp' = "deletePolygon"
           changed ==
               \/ parcelsRef' # parcelsRef
               \/ userPolygonRef' # userPolygonRef
               \/ zoom' # zoom
           expected == rendered(parcelsRef', userPolygonRef', zoom')
       IN  (changed \/ redraws) =>
              /\ redrawParcels(parcelsRef', userPolygonRef', zoom') = expected
              /\ redraws => parcelsLayer' = expected]_vars

(* A triangle is the filter: the parcel inside and the parcel without
   centroid are drawn, the parcel outside is not. *)
C16_Witness ==
    /\ hasUserPolygonRef
    /\ zoom >= DRAW_ZOOM_THRESHOLD
    /\ parcelsRef = {1, 3, 4}
    /\ parcelsLayer = {1, 3}
    /\ { userPolygonRef[k] : k \in 1..Len(userPolygonRef) } = DrawPoints

(* C19: the map holds at most one finalized polygon and at most one preview,
   and outside drawing mode there is no preview and no pending vertex. *)
C19_OneShapeOfEachKind ==
    /\ polygonsOnMap <= 1
    /\ previewsOnMap <= 1
    /\ polygonsOnMap = (IF userPolygonRef = NoShape THEN 0 ELSE 1)
    /\ previewsOnMap = (IF drawingLayerRef = NoShape THEN 0 ELSE 1)
    /\ ~isDrawingRef =>
          /\ previewsOnMap = 0
          /\ drawingLayerRef = NoShape
          /\ drawPointsRef = <<>>

(* A drawing with a preview was finished into the one polygon on the map. *)
C19_Witness ==
    /\ lastOp \in {"click", "dblclick"}
    /\ ~isDrawingRef
    /\ polygonsOnMap = 1
    /\ previewsOnMap = 0

(* C17: once the map is initialized exactly one base layer is on it, the one
   of the current viewType, whether it was selected before or after the
   map was created. *)
C17_Original ==
    mapRef = "map" => baseLayers = {viewType}

(* C18: pointInPolygon returns true for a point strictly inside a simple
   ring and false for a point strictly outside, horizontal edges and rings
   closed by a repeat of the first vertex included. *)
C18_RayCastAgreesWithGeometry ==
    pipOut # "none" =>
        /\ pipIn.where = "inside" => pipOut = "true"
        /\ pipIn.where = "outside" => pipOut = "false"

(* A point strictly inside a closed quadrilateral that starts with a
   horizontal edge was tested. *)
C18_Witness ==
    /\ pipOut = "true"
    /\ pipIn.where = "inside"
    /\ Len(pipIn.ring) = 5
    /\ pipIn.ring[5] = pipIn.ring[1]
    /\ pipIn.ring[1].lat = pipIn.ring[2].lat

(* C21: drawing mode and a finalized filter polygon never coexist, in the
   React state as in the refs: while drawing there is no polygon for
   finishDrawing to replace, and the delete button, rendered while
   hasUserPolygon, is not there. *)
C21_DrawingExcludesPolygon ==
    /\ ~(isDrawing /\ hasUserPolygon)
    /\ ~(isDrawingRef /\ hasUserPolygonRef)
    /\ isDrawingRef => userPolygonRef = NoShape /\ polygonsOnMap = 0
    /\ ENABLED DeletePolygon => ~isDrawing

(* A drawing of three vertices was finished by double-click into the
   polygon. *)
C21_Witness ==
    /\ lastOp = "dblclick"
    /\ hasUserPolygon /\ hasUserPolygonRef
    /\ ~isDrawing /\ ~isDrawingRef
    /\ Len(userPolygonRef) = MIN_VERTICES

(* C22: on a live map at zoom >= 16, with no drawing active, no query in
   flight and no debounce timer pending, the layer shows exactly the cached
   parcels that pass the filter polygon, all of them when there is none. *)
C22_Original ==
    (/\ mapRef = "map"
     /\ pc = "ready"
     /\ zoom >= DRAW_ZOOM_THRESHOLD
     /\ ~isDrawingRef
     /\ inflight = <<>>
     /\ timers = <<>>)
    => parcelsLayer =
          { i \in parcelsRef :
              \/ userPolygonRef = NoShape
              \/ ~Row(i).coords
              \/ pointInPolygon(Row(i).lon, Row(i).lat, userPolygonRef) }

====
